---- MODULE Spec2Model ----
(***************************************************************************)
(* A model of src/game.ts: the GameOfLife class (toroidal B3/S23 automaton *)
(* driven by a setTimeout -> requestAnimationFrame loop, painted with the  *)
(* mouse before the run).                                                  *)
(*                                                                         *)
(* One action models one handler of the page: the two buttons (start,      *)
(* reset), the two canvas listeners (mousedown -> setMode, mousemove ->    *)
(* setFirstGen), the expiry of a pending timer and the delivery of a       *)
(* pending animation frame.  Handlers run to completion (one JS thread).   *)
(***************************************************************************)
EXTENDS Integers, Sequences, FiniteSets, TLC

\* ---------------------------------------------------------------- bounds
\* the grid the constructor builds in Spec: Cols x Rows cells
Cols == 2
Rows == 2
\* the pointer paints within the top-left PaintCols x PaintRows cells
PaintCols == 2
PaintRows == 1
\* side of the square grid of the pattern runs (SpecPatterns)
PatDim == 6
\* side of the square torus of the small-torus runs (SpecTorus)
TorusDim == 3
\* number of setTimeout handles a behaviour may allocate (one per generation step)
MaxTimers == 4

\* ------------------------------------------------------------- constants
CELL_SIZE == 15

NEIGHBOURS ==
  << <<-1, -1>>, <<0, -1>>, <<1, -1>>,
     <<-1, 0>>,             <<1, 0>>,
     <<-1, 1>>,  <<0, 1>>,  <<1, 1>> >>

BREAKPOINTS == [OVERPOPULATION |-> 3, UNDERPOPULATION |-> 2, NEWBORN |-> 3]

\* the value of a handle field that was never assigned (undefined)
NoHandle == 0

\* ----------------------------------------------------------------- state
VARIABLES
  cols, rows,        \* this.cols, this.rows
  field,             \* this.field: field[y][x] in {0,1}
  isSetting,         \* this.isSetting (the paint value)
  isRunning,         \* this.isRunning
  aborted,           \* this.abortController.signal.aborted: the canvas listeners are detached
  hasSignsOfLife,    \* this.hasSignsOfLife
  timeOut,           \* this.timeOut: the handle of the last setTimeout
  frame,             \* this.frame: the handle of the last requestAnimationFrame
  timers,            \* the host's pending timers, oldest first (all have the same delay)
  frames,            \* the host's pending animation frame callbacks, oldest first
  nextTimer,         \* number of timer handles allocated so far
  nextFrame,         \* number of animation frame handles allocated so far
  \* ---- observation (history) variables, never read by the actions' guards
  lastOp,            \* the handler that ran last
  stepped,           \* the last handler executed updateField
  prevField,         \* the field as updateField found it (when stepped)
  alerted,           \* the alert() raised by the last handler: "none", "harmony", "perished"
  startField,        \* the field as the last effective start() found it
  runSteps,          \* generation steps executed since that start()
  runReports,        \* alerts raised since that start()
  staleTimers,       \* timers that were pending when a run stopped
  staleFrames,       \* frames pending when a run stopped, or requested by a stale timer
  cellWrites,        \* assignments to cells of this.field made by the last handler
  cellChanges,       \* those of them that stored a value other than the one held
  cellDraws,         \* drawCell calls made by the rows' set traps in the last handler
  pointer            \* <<offsetX, offsetY, buttons>> of the event the last handler got,
                     \* where the pointer is observed (SpecPaint); <<>> otherwise

progVars ==
  <<cols, rows, field, isSetting, isRunning, aborted, hasSignsOfLife,
    timeOut, frame, timers, frames, nextTimer, nextFrame>>

histVars ==
  <<lastOp, stepped, prevField, alerted, startField, runSteps, runReports,
    staleTimers, staleFrames, cellWrites, cellChanges, cellDraws, pointer>>

vars == <<progVars, histVars>>

\* -------------------------------------------------------------- helpers
\* clearTimeout / cancelAnimationFrame: drop the handle h from a pending queue
Cancel(queue, h) == SelectSeq(queue, LAMBDA e : e # h)

SeqToSet(s) == {s[i] : i \in 1..Len(s)}

\* generateField: this.rows rows of this.cols zeros
generateField(r, c) == [y \in 0..(r - 1) |-> [x \in 0..(c - 1) |-> 0]]

\* the coordinates rounded to the nearest cell instead of floored
getCellCoordsRound(offsetX, offsetY) ==
  [x |-> (2 * offsetX + CELL_SIZE) \div (2 * CELL_SIZE),
   y |-> (2 * offsetY + CELL_SIZE) \div (2 * CELL_SIZE)]

\* getCellCoords: Math.floor(offset / CELL_SIZE) on both axes
getCellCoords(offsetX, offsetY) ==
  [x |-> offsetX \div CELL_SIZE, y |-> offsetY \div CELL_SIZE]

\* a neighbour index clamped to the edge instead of wrapped around it
WrapCoordClamp(n, dimension) ==
  IF n < 0 THEN 0 ELSE IF n >= dimension THEN dimension - 1 ELSE n

\* the single-step wraparound of getNeighboursCount
WrapCoord(n, dimension) ==
  IF n < 0 THEN dimension - 1 ELSE IF n >= dimension THEN 0 ELSE n

\* the loop leaving one neighbour too early: >= for > in the break test
RECURSIVE CountLoopSlip(_, _, _, _, _)
CountLoopSlip(f, Cx, Cy, i, count) ==
  IF i > Len(NEIGHBOURS) \/ count >= BREAKPOINTS.OVERPOPULATION
  THEN count
  ELSE LET Nx == WrapCoord(Cx + NEIGHBOURS[i][1], cols)
           Ny == WrapCoord(Cy + NEIGHBOURS[i][2], rows)
       IN CountLoopSlip(f, Cx, Cy, i + 1, count + f[Ny][Nx])

\* the for loop of getNeighboursCount from index i on (1-based), count so far
RECURSIVE CountLoop(_, _, _, _, _)
CountLoop(f, Cx, Cy, i, count) ==
  IF i > Len(NEIGHBOURS) \/ count > BREAKPOINTS.OVERPOPULATION
  THEN count
  ELSE LET Nx == WrapCoord(Cx + NEIGHBOURS[i][1], cols)
           Ny == WrapCoord(Cy + NEIGHBOURS[i][2], rows)
       IN CountLoop(f, Cx, Cy, i + 1, count + f[Ny][Nx])

getNeighboursCount(f, Cx, Cy) == CountLoop(f, Cx, Cy, 1, 0)

\* a plausible slip in the rule: >= for > in the overpopulation test
RuleSlip(isAlive, neighboursCount) ==
  IF isAlive = 1 /\ (neighboursCount >= BREAKPOINTS.OVERPOPULATION
                     \/ neighboursCount < BREAKPOINTS.UNDERPOPULATION)
  THEN 0
  ELSE IF isAlive = 0 /\ neighboursCount = BREAKPOINTS.NEWBORN
  THEN 1
  ELSE isAlive

\* the if / else if of getCellState
Rule(isAlive, neighboursCount) ==
  IF isAlive = 1 /\ (neighboursCount > BREAKPOINTS.OVERPOPULATION
                     \/ neighboursCount < BREAKPOINTS.UNDERPOPULATION)
  THEN 0
  ELSE IF isAlive = 0 /\ neighboursCount = BREAKPOINTS.NEWBORN
  THEN 1
  ELSE isAlive

getCellState(f, x, y) == Rule(f[y][x], getNeighboursCount(f, x, y))

\* the assignment row[x] = v stores a value other than the one the row holds
Changes(f, x, y, v) == x \notin DOMAIN f[y] \/ f[y][x] # v

\* a set trap that draws only when the stored value changes
ReflectSetIfChanged(f, x, y, v) == Changes(f, x, y, v)

\* `const updated = Reflect.set(...args)` in the set trap of a row: the
\* assignment to an array element succeeds, whatever value the element held
ReflectSet(f, x, y, v) == TRUE

\* `if (updated) this.drawCell(...)`: the drawCell calls of one assignment
Draws(f, x, y, v) == IF ReflectSet(f, x, y, v) THEN 1 ELSE 0

\* the drawCell calls of the write loop of updateField (each change writes
\* another cell, so every assignment finds the value the scan found)
DrawCount(f, cellsToChange) ==
  Cardinality({i \in 1..Len(cellsToChange) :
                 Draws(f, cellsToChange[i].x, cellsToChange[i].y,
                       cellsToChange[i].state) = 1})

\* row[x] = v on the array behind the proxy: an index the row does not have
\* becomes a new property of it
SetCell(f, x, y, v) ==
  [f EXCEPT ![y] = [k \in (DOMAIN f[y]) \cup {x} |-> IF k = x THEN v ELSE f[y][k]]]

\* a write loop that returns after its first assignment
ApplyFirstOnly(f, cellsToChange) ==
  IF cellsToChange = <<>>
  THEN f
  ELSE LET c == Head(cellsToChange)
       IN [f EXCEPT ![c.y][c.x] = c.state]

\* the write loop of updateField: this.field[c.y][c.x] = c.state for each change
RECURSIVE ApplyChanges(_, _)
ApplyChanges(f, cellsToChange) ==
  IF cellsToChange = <<>>
  THEN f
  ELSE LET c == Head(cellsToChange)
       IN ApplyChanges([f EXCEPT ![c.y][c.x] = c.state], Tail(cellsToChange))

\* the scan loop of updateField, x outer and y inner: the k-th cell visited
ScanCell(k) == [x |-> (k - 1) \div rows, y |-> (k - 1) % rows]

\* a scan that raises hasSignsOfLife by the cells alive now, not by those
\* alive in the next generation
ScanFieldLifeNow(f) ==
  LET visited == [k \in 1..(cols * rows) |->
                    [x |-> ScanCell(k).x, y |-> ScanCell(k).y,
                     state |-> getCellState(f, ScanCell(k).x, ScanCell(k).y)]]
  IN [cellsToChange |-> SelectSeq(visited, LAMBDA c : c.state # f[c.y][c.x]),
      hasSignsOfLife |-> \E k \in 1..(cols * rows) : f[visited[k].y][visited[k].x] = 1]

\* a scan that records every cell it visits, changed or not
ScanFieldAll(f) ==
  LET visited == [k \in 1..(cols * rows) |->
                    [x |-> ScanCell(k).x, y |-> ScanCell(k).y,
                     state |-> getCellState(f, ScanCell(k).x, ScanCell(k).y)]]
  IN [cellsToChange |-> visited,
      hasSignsOfLife |-> \E k \in 1..(cols * rows) : visited[k].state = 1]

\* the scan of updateField: every cell's next state is computed from f, the
\* field the scan started with; a change is recorded, in scan order, for each
\* cell whose next state differs, and hasSignsOfLife is raised by a live one
ScanField(f) ==
  LET visited == [k \in 1..(cols * rows) |->
                    [x |-> ScanCell(k).x, y |-> ScanCell(k).y,
                     state |-> getCellState(f, ScanCell(k).x, ScanCell(k).y)]]
  IN [cellsToChange |-> SelectSeq(visited, LAMBDA c : c.state # f[c.y][c.x]),
      hasSignsOfLife |-> \E k \in 1..(cols * rows) : visited[k].state = 1]

\* a scan that writes each cell as soon as it is computed (no change list)
RECURSIVE InPlaceLoop(_, _)
InPlaceLoop(f, k) ==
  IF k >= cols * rows
  THEN f
  ELSE LET x == k \div rows
           y == k % rows
       IN InPlaceLoop([f EXCEPT ![y][x] = getCellState(f, x, y)], k + 1)

NextFieldInPlace(f) == InPlaceLoop(f, 0)

\* the field updateField leaves when it found changes: scan, then apply
NextField(f) == ApplyChanges(f, ScanField(f).cellsToChange)


\* an off-by-one in the termination test
IsFixedPointSlip(cellsToChange) == Len(cellsToChange) <= 1

\* `if (!cellsToChange.length)` in updateField: the step found nothing to change
IsFixedPoint(cellsToChange) == Len(cellsToChange) = 0

\* reset() called on every outcome
ResetsAlways(halt, life) == halt

\* `if (!this.hasSignsOfLife) this.reset()` in the halting branch of updateField
Resets(halt, life) == halt /\ ~life

\* render without its guard
RenderAlways(running) == TRUE

\* `if (!this.isRunning) return;` in render: the step is executed only while running
RenderRuns(running) == running

\* start without its guard
StartNeverReturns(running) == FALSE

\* `if (this.isRunning) return;` in start
StartReturns(running) == running

\* start without the abort() call
AbortForgotten(ab) == ab

\* `this.abortController.abort()` in start: the signal is aborted afterwards
AbortSignal(ab) == TRUE

\* init without the assignment to isRunning
InitKeepsRunning(running) == running

\* `this.isRunning = false` in init
InitIsRunning(running) == FALSE

\* ------------------------------------------------- pointer and id inputs
\* the cells the pointer visits: the top-left PaintCols x PaintRows of the field
PaintedCols == 0..((IF PaintCols < cols THEN PaintCols ELSE cols) - 1)
PaintedRows == 0..((IF PaintRows < rows THEN PaintRows ELSE rows) - 1)

\* MouseEvent.offsetX: the last pixel of every visited column
PointerXs == {c * CELL_SIZE + (CELL_SIZE - 1) : c \in PaintedCols}

\* MouseEvent.offsetX with the pointer over the right border of the canvas:
\* the first pixel past the last column (setFirstGen checks offsetY only)
OutsideXs == {cols * CELL_SIZE}

\* MouseEvent.offsetY: the last pixel of every visited row, the pixel above
\* the canvas and the pixel below it
PointerYs ==
  {r * CELL_SIZE + (CELL_SIZE - 1) : r \in PaintedRows} \cup {-1, rows * CELL_SIZE}

\* MouseEvent.buttons: none, primary, secondary
Buttons == {0, 1, 2}

\* this.canvas.height, set by the constructor
CanvasHeight == rows * CELL_SIZE

\* ------------------------------------------------------------------ Init
\* the state the constructor leaves, for a cols x rows canvas
Constructed(c, r) ==
  /\ cols = c
  /\ rows = r
  /\ field = generateField(r, c)
  /\ isSetting = TRUE
  /\ isRunning = FALSE
  /\ aborted = FALSE
  /\ hasSignsOfLife = TRUE
  /\ timeOut = NoHandle
  /\ frame = NoHandle
  /\ timers = <<>>
  /\ frames = <<>>
  /\ nextTimer = 0
  /\ nextFrame = 0
  /\ lastOp = "init"
  /\ stepped = FALSE
  /\ prevField = field
  /\ alerted = "none"
  /\ startField = field
  /\ runSteps = 0
  /\ runReports = 0
  /\ staleTimers = {}
  /\ staleFrames = {}
  /\ cellWrites = 0
  /\ cellChanges = 0
  /\ cellDraws = 0
  /\ pointer = <<>>

Init == Constructed(Cols, Rows)

\* --------------------------------------------------------------- actions
\* what a handler that executes no generation step leaves in the observations
NoStep(op) ==
  /\ lastOp' = op
  /\ stepped' = FALSE
  /\ prevField' = field'
  /\ alerted' = "none"

\* a handler that assigns no cell of the field (and gets no pointer event)
NoWrite ==
  /\ cellWrites' = 0
  /\ cellChanges' = 0
  /\ cellDraws' = 0
  /\ pointer' = <<>>

\* the observations of a run are cleared when the field is set up anew
\* (reset() or painting)
NoRun ==
  /\ startField' = field'
  /\ runSteps' = 0
  /\ runReports' = 0

\* render() past its guard: updateField(), then setTimeout(...).
\* ab is the abort state render finds, pending the frames still pending.
\* On an empty change list updateField stops the run, cancels this.frame and
\* this.timeOut, alerts, and calls reset() when nothing is alive; the timer
\* is set after updateField returned, whatever it did.
render(op, ab, pending, firstStep) ==
  \E scan \in {ScanField(field)} :
  \E halt \in {IsFixedPoint(scan.cellsToChange)} :
  LET perished == Resets(halt, scan.hasSignsOfLife)
      timers1  == IF halt THEN Cancel(timers, timeOut) ELSE timers
      frames1  == IF halt THEN Cancel(pending, frame) ELSE pending
      handle   == nextTimer + 1
  IN /\ nextTimer < MaxTimers
     /\ field' = IF perished THEN generateField(rows, cols) ELSE NextField(field)
     /\ isRunning' = IF perished THEN InitIsRunning(FALSE)
                     ELSE IF halt THEN FALSE ELSE TRUE
     /\ aborted' = IF perished THEN FALSE ELSE ab
     /\ hasSignsOfLife' = IF perished THEN TRUE ELSE scan.hasSignsOfLife
     /\ timers' = Append(timers1, handle)
     /\ timeOut' = handle
     /\ nextTimer' = handle
     /\ frames' = frames1
     /\ UNCHANGED <<cols, rows, isSetting, frame, nextFrame>>
     /\ lastOp' = op
     /\ stepped' = TRUE
     /\ prevField' = field
     /\ alerted' = IF ~halt THEN "none"
                   ELSE IF scan.hasSignsOfLife THEN "harmony" ELSE "perished"
     /\ runSteps' = IF firstStep THEN 1 ELSE runSteps + 1
     /\ runReports' = (IF firstStep THEN 0 ELSE runReports) + (IF halt THEN 1 ELSE 0)
     /\ staleTimers' = IF halt THEN staleTimers \cup SeqToSet(timers1) ELSE staleTimers
     /\ staleFrames' = (IF halt THEN staleFrames \cup SeqToSet(frames1) ELSE staleFrames)
                         \ (SeqToSet(frames) \ SeqToSet(pending))
     /\ cellWrites' = Len(scan.cellsToChange)
     /\ cellChanges' = Cardinality({i \in 1..Len(scan.cellsToChange) :
                            Changes(field, scan.cellsToChange[i].x,
                                    scan.cellsToChange[i].y,
                                    scan.cellsToChange[i].state)})
     /\ cellDraws' = DrawCount(field, scan.cellsToChange)
     /\ pointer' = <<>>

\* the start button
Start ==
  IF StartReturns(isRunning)
  THEN /\ UNCHANGED progVars
       /\ NoStep("start")
       /\ NoWrite
       /\ UNCHANGED <<startField, runSteps, runReports, staleTimers, staleFrames>>
  ELSE /\ render("start", AbortSignal(aborted), frames, TRUE)
       /\ startField' = field

\* the reset button: clearTimeout, cancelAnimationFrame, clearRect, init()
Reset ==
  /\ timers' = Cancel(timers, timeOut)
  /\ frames' = Cancel(frames, frame)
  /\ isRunning' = InitIsRunning(isRunning)
  /\ aborted' = FALSE
  /\ field' = generateField(rows, cols)
  /\ hasSignsOfLife' = TRUE
  /\ UNCHANGED <<cols, rows, isSetting, timeOut, frame, nextTimer, nextFrame>>
  /\ NoStep("reset")
  /\ NoWrite
  /\ staleTimers' = IF isRunning THEN staleTimers \cup SeqToSet(timers') ELSE staleTimers
  /\ staleFrames' = IF isRunning THEN staleFrames \cup SeqToSet(frames') ELSE staleFrames
  /\ NoRun

\* the oldest pending timer expires: this.frame = requestAnimationFrame(this.render)
TimerFires ==
  /\ timers # <<>>
  /\ timers' = Tail(timers)
  /\ nextFrame' = nextFrame + 1
  /\ frame' = nextFrame + 1
  /\ frames' = Append(frames, nextFrame + 1)
  /\ UNCHANGED <<cols, rows, field, isSetting, isRunning, aborted, hasSignsOfLife,
                 timeOut, nextTimer>>
  /\ NoStep("timer")
  /\ NoWrite
  /\ staleTimers' = staleTimers \ {Head(timers)}
  /\ staleFrames' = IF Head(timers) \in staleTimers
                    THEN staleFrames \cup {nextFrame + 1} ELSE staleFrames
  /\ UNCHANGED <<startField, runSteps, runReports>>

\* the oldest pending animation frame callback runs: render()
FrameFires ==
  /\ frames # <<>>
  /\ IF RenderRuns(isRunning)
     THEN /\ render("frame", aborted, Tail(frames), FALSE)
          /\ UNCHANGED startField
     ELSE /\ frames' = Tail(frames)
          /\ UNCHANGED <<cols, rows, field, isSetting, isRunning, aborted, hasSignsOfLife,
                         timeOut, frame, timers, nextTimer, nextFrame>>
          /\ NoStep("frame")
          /\ NoWrite
          /\ staleFrames' = staleFrames \ {Head(frames)}
          /\ UNCHANGED <<startField, runSteps, runReports, staleTimers>>

\* the first line of setFirstGen: the event is ignored
Ignored(offsetY, buttons) == buttons # 1 \/ offsetY < 0 \/ offsetY >= CanvasHeight

\* setFirstGen(e): paint the cell under the pointer with the paint value v
setFirstGen(offsetX, offsetY, buttons, v) ==
  IF Ignored(offsetY, buttons)
  THEN field
  ELSE LET c == getCellCoords(offsetX, offsetY)
       IN SetCell(field, c.x, c.y, IF v THEN 1 ELSE 0)

\* the assignments and the drawCell calls of setFirstGen(e)
PaintWrites(offsetX, offsetY, buttons, v) ==
  IF Ignored(offsetY, buttons)
  THEN [writes |-> 0, changes |-> 0, draws |-> 0]
  ELSE LET c == getCellCoords(offsetX, offsetY)
       IN [writes |-> 1,
           changes |-> IF Changes(field, c.x, c.y, IF v THEN 1 ELSE 0) THEN 1 ELSE 0,
           draws |-> Draws(field, c.x, c.y, IF v THEN 1 ELSE 0)]

\* this.field[y]?.[x] read as a boolean: undefined outside the field
CellTruthy(x, y) ==
  /\ y \in DOMAIN field
  /\ x \in DOMAIN field[y]
  /\ field[y][x] # 0

\* mousemove on the canvas, while the listeners are attached, with offsetX
\* in Xs; seen: the event is observed in pointer
MouseMoveAt(Xs, seen) ==
  /\ ~aborted
  /\ \E offsetX \in Xs, offsetY \in PointerYs, buttons \in Buttons :
       /\ field' = setFirstGen(offsetX, offsetY, buttons, isSetting)
       /\ pointer' = IF seen THEN <<offsetX, offsetY, buttons>> ELSE <<>>
       /\ \E w \in {PaintWrites(offsetX, offsetY, buttons, isSetting)} :
            /\ cellWrites' = w.writes
            /\ cellChanges' = w.changes
            /\ cellDraws' = w.draws
  /\ UNCHANGED <<cols, rows, isSetting, isRunning, aborted, hasSignsOfLife,
                 timeOut, frame, timers, frames, nextTimer, nextFrame>>
  /\ NoStep("mousemove")
  /\ NoRun
  /\ UNCHANGED <<staleTimers, staleFrames>>

MouseMove == MouseMoveAt(PointerXs, FALSE)

\* mousedown on the canvas: setMode(e), which ends with setFirstGen(e)
MouseDownAt(Xs, seen) ==
  /\ ~aborted
  /\ \E offsetX \in Xs, offsetY \in PointerYs, buttons \in Buttons \ {0} :
       LET c == getCellCoords(offsetX, offsetY)
       IN /\ isSetting' = ~CellTruthy(c.x, c.y)
          /\ pointer' = IF seen THEN <<offsetX, offsetY, buttons>> ELSE <<>>
          /\ field' = setFirstGen(offsetX, offsetY, buttons, isSetting')
          /\ \E w \in {PaintWrites(offsetX, offsetY, buttons, isSetting')} :
               /\ cellWrites' = w.writes
               /\ cellChanges' = w.changes
               /\ cellDraws' = w.draws
  /\ UNCHANGED <<cols, rows, isRunning, aborted, hasSignsOfLife,
                 timeOut, frame, timers, frames, nextTimer, nextFrame>>
  /\ NoStep("mousedown")
  /\ NoRun
  /\ UNCHANGED <<staleTimers, staleFrames>>

MouseDown == MouseDownAt(PointerXs, FALSE)

Next == Start \/ Reset \/ TimerFires \/ FrameFires \/ MouseMove \/ MouseDown

Spec == Init /\ [][Next]_vars

\* ------------------------------------------------------ painting sessions
\* the pointer events observed, also those over the right border of the canvas
MouseMoveSeen == MouseMoveAt(PointerXs \cup OutsideXs, TRUE)

MouseDownSeen == MouseDownAt(PointerXs \cup OutsideXs, TRUE)

\* the pointer and the reset button, while the game has not been started
NextPaint == Reset \/ MouseMoveSeen \/ MouseDownSeen

SpecPaint == Init /\ [][NextPaint]_vars


\* ------------------------------------------------------- pattern runs
\* a shape (a set of <<x, y>> cells) laid on the torus with its origin at <<dx, dy>>
Place(shape, dx, dy, c, r) ==
  [y \in 0..(r - 1) |-> [x \in 0..(c - 1) |->
     IF <<(x - dx) % c, (y - dy) % r>> \in shape THEN 1 ELSE 0]]

Glider == {<<1, 0>>, <<2, 1>>, <<0, 2>>, <<1, 2>>, <<2, 2>>}
Block == {<<0, 0>>, <<1, 0>>, <<0, 1>>, <<1, 1>>}
Blinker == {<<0, 1>>, <<1, 1>>, <<2, 1>>}
Corner == {<<0, 0>>, <<1, 0>>, <<0, 1>>}
Single == {<<0, 0>>}

Box == {<<x, y>> : x \in 0..2, y \in 0..2}

\* the painted fields the pattern runs start from: the named shapes anywhere on
\* the torus, and every subset of a 3x3 box that straddles the four edges
Patterns ==
  {Place(sh, dx, dy, PatDim, PatDim) :
     sh \in {Glider, Block, Blinker, Corner, Single},
     dx \in 0..(PatDim - 1), dy \in 0..(PatDim - 1)}
  \cup {Place(sh, PatDim - 1, PatDim - 1, PatDim, PatDim) : sh \in SUBSET Box}

\* a PatDim x PatDim game whose field the user has painted with a pattern
InitPatterns ==
  /\ cols = PatDim
  /\ rows = PatDim
  /\ field \in Patterns
  /\ isSetting = TRUE
  /\ isRunning = FALSE
  /\ aborted = FALSE
  /\ hasSignsOfLife = TRUE
  /\ timeOut = NoHandle
  /\ frame = NoHandle
  /\ timers = <<>>
  /\ frames = <<>>
  /\ nextTimer = 0
  /\ nextFrame = 0
  /\ lastOp = "mousemove"
  /\ stepped = FALSE
  /\ prevField = field
  /\ alerted = "none"
  /\ startField = field
  /\ runSteps = 0
  /\ runReports = 0
  /\ staleTimers = {}
  /\ staleFrames = {}
  /\ cellWrites = 0
  /\ cellChanges = 0
  /\ cellDraws = 0
  /\ pointer = <<>>

\* the pattern runs: the buttons and the callbacks, no further painting
NextPatterns == Start \/ Reset \/ TimerFires \/ FrameFires

SpecPatterns == InitPatterns /\ [][NextPatterns]_vars

\* ---------------------------------------------------- small-torus runs
\* the painted fields of the small torus: every subset of the 3x3 box
Fields == {Place(sh, 0, 0, TorusDim, TorusDim) : sh \in SUBSET Box}

\* a TorusDim x TorusDim game whose field the user has painted
InitTorus ==
  /\ cols = TorusDim
  /\ rows = TorusDim
  /\ field \in Fields
  /\ isSetting = TRUE
  /\ isRunning = FALSE
  /\ aborted = FALSE
  /\ hasSignsOfLife = TRUE
  /\ timeOut = NoHandle
  /\ frame = NoHandle
  /\ timers = <<>>
  /\ frames = <<>>
  /\ nextTimer = 0
  /\ nextFrame = 0
  /\ lastOp = "mousemove"
  /\ stepped = FALSE
  /\ prevField = field
  /\ alerted = "none"
  /\ startField = field
  /\ runSteps = 0
  /\ runReports = 0
  /\ staleTimers = {}
  /\ staleFrames = {}
  /\ cellWrites = 0
  /\ cellChanges = 0
  /\ cellDraws = 0
  /\ pointer = <<>>

SpecTorus == InitTorus /\ [][NextPatterns]_vars

\* ------------------------------------------------- reference definitions
\* the eight offsets of the Moore neighbourhood
Offsets == {<<dx, dy>> : dx \in -1..1, dy \in -1..1} \ {<<0, 0>>}

\* the toroidal live-neighbour count of <<x, y>> in f, by modular arithmetic
ToroidalCount(f, x, y) ==
  Cardinality({d \in Offsets : f[(y + d[2]) % rows][(x + d[1]) % cols] = 1})

\* Conway's rule B3/S23
B3S23(state, count) ==
  IF state = 1
  THEN (IF count \in {2, 3} THEN 1 ELSE 0)
  ELSE (IF count = 3 THEN 1 ELSE 0)

\* the generation that follows f
Generation(f) ==
  [y \in 0..(rows - 1) |-> [x \in 0..(cols - 1) |->
     B3S23(f[y][x], ToroidalCount(f, x, y))]]

HasLife(f) == \E y \in DOMAIN f : \E x \in DOMAIN f[y] : f[y][x] = 1

\* ----------------------------------------------------------------- C1
\* C1: after a generation step every cell holds the B3/S23 rule applied to
\* its own state and its toroidal neighbour count in the field the step
\* found (no cell is computed from already updated cells); a glider is the
\* same glider one cell further down the diagonal after its fourth step.
C1_SynchronousUpdate ==
  /\ stepped => field = Generation(prevField)
  /\ \A dx \in 0..(cols - 1), dy \in 0..(rows - 1) :
       (startField = Place(Glider, dx, dy, cols, rows) /\ runSteps = 4)
         => field = Place(Glider, dx + 1, dy + 1, cols, rows)

\* a glider run has made its fourth step
C1_Witness ==
  /\ stepped
  /\ runSteps = 4
  /\ \E dx \in 0..(cols - 1), dy \in 0..(rows - 1) :
       startField = Place(Glider, dx, dy, cols, rows)
  /\ field # prevField

\* ----------------------------------------------------------------- C2
\* C2 (as claimed): at most one step loop is active: while the simulation
\* runs there are never two outstanding handles (pending timers or pending
\* frames), each of which goes on to call render().
C2_NoOverlappingLoops ==
  isRunning => Len(timers) + Len(frames) <= 1

\* ----------------------------------------------------------------- C3
\* C3 (as claimed): when the run has just stopped, by an alert (empty change
\* list) or by reset(), no timer and no animation frame is pending.
C3_StopCancelsHandles ==
  (alerted # "none" \/ lastOp = "reset") => (timers = <<>> /\ frames = <<>>)

\* ----------------------------------------------------------------- C4
\* C4 (as claimed): a callback scheduled before a stop is a no-op when it
\* fires: the frame callback that was pending at a stop, or that a timer
\* pending at a stop requested, never executes a generation step.
C4_StaleCallbackIsNoop ==
  [][(frames # <<>> /\ Head(frames) \in staleFrames /\ lastOp' = "frame")
       => ~stepped']_vars

\* ----------------------------------------------------------------- C5
\* C5: a step halts the run iff its change set is empty, that is iff the
\* field it found is a fixed point of the rule; the alert is "harmony" iff
\* that field has a live cell and "perished" otherwise; a step from a frame
\* is executed only while the run has not halted, so the halting step is the
\* first one with an empty change set.  A 2x2 block on a field of at least
\* 6x6 cells halts at the step made by start(), with "harmony" and the field
\* untouched.
C5_StepInv ==
  /\ stepped =>
       LET fixed == Generation(prevField) = prevField
       IN /\ (alerted # "none") = fixed
          /\ (alerted = "harmony") = (fixed /\ HasLife(prevField))
          /\ (alerted = "perished") = (fixed /\ ~HasLife(prevField))
          /\ isRunning = ~fixed
          /\ fixed = (ScanField(prevField).cellsToChange = <<>>)
  /\ \A dx \in 0..(cols - 1), dy \in 0..(rows - 1) :
       (/\ cols >= 6 /\ rows >= 6
        /\ startField = Place(Block, dx, dy, cols, rows)
        /\ runSteps >= 1)
         => /\ runSteps = 1
            /\ ~isRunning
            /\ field = startField
            /\ (lastOp = "start" => alerted = "harmony")

C5_HaltsAtFixedPoint ==
  /\ []C5_StepInv
  /\ [][(stepped' /\ lastOp' = "frame") => isRunning]_vars

\* start() on a painted 2x2 block has just alerted "harmony"
C5_Witness ==
  /\ lastOp = "start"
  /\ alerted = "harmony"
  /\ \E dx \in 0..(cols - 1), dy \in 0..(rows - 1) :
       startField = Place(Block, dx, dy, cols, rows)

\* ----------------------------------------------------------------- C6
\* C6: the outcome is alerted exactly once per completed run: a run never
\* alerts twice, a running simulation has not alerted yet, an alert is only
\* raised by a step that halted the run, and a step that halts the run
\* alerts.
C6_OneReportPerRun ==
  /\ runReports <= 1
  /\ isRunning => runReports = 0
  /\ alerted # "none" => (stepped /\ ~isRunning /\ runReports = 1)
  /\ (stepped /\ ~isRunning) => alerted # "none"

\* a run that made several steps has halted in a frame callback and alerted
C6_Witness ==
  /\ lastOp = "frame"
  /\ alerted # "none"
  /\ runSteps > 1
  /\ runReports = 1

\* ----------------------------------------------------------------- C7
\* C7: start() while running changes nothing of the game (field, flags,
\* pending handles) and executes no step.  start() while not running
\* executes the first step of the loop at once, on the field it found, and
\* schedules the next one; painting is disabled and the simulation is
\* running afterwards, unless that first step already halted the run (not
\* running; painting enabled again by the reset on "perished").
C7_Start ==
  [][lastOp' = "start" =>
       IF isRunning
       THEN UNCHANGED progVars /\ ~stepped'
       ELSE /\ stepped'
            /\ prevField' = field
            /\ runSteps' = 1
            /\ nextTimer' = nextTimer + 1
            /\ timeOut' = nextTimer'
            /\ timers' # <<>> /\ timers'[Len(timers')] = timeOut'
            /\ isRunning' = (Generation(field) # field)
            /\ aborted' = (alerted' # "perished")
            /\ (alerted' = "none") = isRunning']_vars

\* start() was clicked while the simulation was running
C7_Witness ==
  /\ lastOp = "start"
  /\ ~stepped
  /\ isRunning
  /\ timers # <<>>

\* ----------------------------------------------------------------- C8
\* C8: after reset() the simulation is idle: not running, the field is a
\* fresh all-dead field of rows x cols cells, painting is enabled; and while
\* the simulation is not running no handler but start() executes a step.
C8_AfterReset ==
  lastOp = "reset" =>
    /\ ~isRunning
    /\ ~aborted
    /\ field = [y \in 0..(rows - 1) |-> [x \in 0..(cols - 1) |-> 0]]

C8_Reset ==
  /\ []C8_AfterReset
  /\ [][(~isRunning /\ stepped') => lastOp' = "start"]_vars

\* reset() has run and a timer it did not cancel is still pending
C8_Witness ==
  /\ lastOp = "reset"
  /\ timers # <<>>

\* ----------------------------------------------------------------- C9
\* C9: painting is disabled whenever the simulation is running; a paint
\* event changes the field only while the simulation is not running, and a
\* step changes the field only with painting disabled.
C9_RunningImpliesNoPaint == isRunning => aborted

C9_PaintingVsStepping ==
  /\ []C9_RunningImpliesNoPaint
  /\ [][/\ (lastOp' \in {"mousemove", "mousedown"} /\ field' # field)
             => (~isRunning /\ ~aborted)
        /\ (stepped' /\ field' # field) => (aborted' /\ isRunning')]_vars

\* a running simulation has just changed the field
C9_Witness ==
  /\ isRunning
  /\ stepped
  /\ field # prevField

\* ---------------------------------------------------------------- C10
\* C10: the rule table with the default thresholds: a live cell with 2 or 3
\* live neighbours stays alive and dies with any other count in 0..8; a dead
\* cell with exactly 3 is born and stays dead with any other count; and this
\* is the state getCellState computes for every cell of the field from the
\* cell's state and the count getNeighboursCount returns for it.
RuleTable(state, count) ==
  IF state = 1
  THEN (IF count \in {0, 1, 4, 5, 6, 7, 8} THEN 0 ELSE 1)
  ELSE (IF count = 3 THEN 1 ELSE 0)

C10_RuleTable ==
  /\ BREAKPOINTS = [OVERPOPULATION |-> 3, UNDERPOPULATION |-> 2, NEWBORN |-> 3]
  /\ \A state \in {0, 1}, count \in 0..8 : Rule(state, count) = RuleTable(state, count)
  /\ \A y \in 0..(rows - 1), x \in 0..(cols - 1) :
       getCellState(field, x, y)
         = RuleTable(field[y][x], getNeighboursCount(field, x, y))

\* a step has applied the four rows of the table: a birth, a survival, a
\* death by underpopulation and a death by overpopulation
C10_Witness ==
  /\ stepped
  /\ \E y \in 0..(rows - 1), x \in 0..(cols - 1) :
       prevField[y][x] = 0 /\ ToroidalCount(prevField, x, y) = 3 /\ field[y][x] = 1
  /\ \E y \in 0..(rows - 1), x \in 0..(cols - 1) :
       prevField[y][x] = 1 /\ ToroidalCount(prevField, x, y) \in {2, 3} /\ field[y][x] = 1
  /\ \E y \in 0..(rows - 1), x \in 0..(cols - 1) :
       prevField[y][x] = 1 /\ ToroidalCount(prevField, x, y) < 2 /\ field[y][x] = 0
  /\ \E y \in 0..(rows - 1), x \in 0..(cols - 1) :
       prevField[y][x] = 1 /\ ToroidalCount(prevField, x, y) > 3 /\ field[y][x] = 0

\* ---------------------------------------------------------------- C11
\* the least of two integers
Min(a, b) == IF a < b THEN a ELSE b

\* C11 (as claimed): for every cell, getNeighboursCount returns an integer
\* in 0..8 that is the sum of the states of the cell's eight toroidally
\* wrapped neighbours.
C11_CountIsNeighbourSum ==
  \A y \in 0..(rows - 1), x \in 0..(cols - 1) :
    /\ getNeighboursCount(field, x, y) \in 0..8
    /\ getNeighboursCount(field, x, y) = ToroidalCount(field, x, y)

\* C11 (amended): for every cell, getNeighboursCount returns the sum of the
\* states of the cell's eight toroidally wrapped neighbours when that sum is
\* at most OVERPOPULATION + 1 = 4, and 4 when the sum is larger (the loop
\* stops as soon as the count exceeds OVERPOPULATION); on a 3x3 grid with
\* only (0, 0) alive the count of (2, 2) is 1.
C11_CountIsCappedSum ==
  /\ \A y \in 0..(rows - 1), x \in 0..(cols - 1) :
       /\ getNeighboursCount(field, x, y) \in 0..(BREAKPOINTS.OVERPOPULATION + 1)
       /\ getNeighboursCount(field, x, y)
            = Min(ToroidalCount(field, x, y), BREAKPOINTS.OVERPOPULATION + 1)
  /\ (cols = 3 /\ rows = 3 /\ field = Place(Single, 0, 0, 3, 3))
       => getNeighboursCount(field, 2, 2) = 1

\* a step has counted the neighbours of a cell that has more than four of
\* them alive, and of a cell that has at most four
C11_Witness ==
  /\ stepped
  /\ \E y \in 0..(rows - 1), x \in 0..(cols - 1) :
       /\ ToroidalCount(prevField, x, y) > 4
       /\ getNeighboursCount(prevField, x, y) = 4
  /\ \E y \in 0..(rows - 1), x \in 0..(cols - 1) :
       /\ ToroidalCount(prevField, x, y) \in 1..4
       /\ getNeighboursCount(prevField, x, y) = ToroidalCount(prevField, x, y)

\* ---------------------------------------------------------------- C12
\* C12: with the thresholds 3/2/3, the state the rule gives a cell from the
\* count the early-exit loop returns is the state it gives from the full sum
\* of the eight wrapped neighbours, for every live and every dead cell of
\* every field.
C12_EarlyExitIsSafe ==
  /\ BREAKPOINTS.OVERPOPULATION >= BREAKPOINTS.NEWBORN
  /\ \A y \in 0..(rows - 1), x \in 0..(cols - 1) :
       Rule(field[y][x], getNeighboursCount(field, x, y))
         = Rule(field[y][x], ToroidalCount(field, x, y))

\* a step has left the loop early for a live cell and for a dead cell, and
\* has run the loop to its end for a dead cell that is born
C12_Witness ==
  /\ stepped
  /\ \E y \in 0..(rows - 1), x \in 0..(cols - 1) :
       /\ prevField[y][x] = 1
       /\ getNeighboursCount(prevField, x, y) < ToroidalCount(prevField, x, y)
  /\ \E y \in 0..(rows - 1), x \in 0..(cols - 1) :
       /\ prevField[y][x] = 0
       /\ getNeighboursCount(prevField, x, y) < ToroidalCount(prevField, x, y)

\* ---------------------------------------------------------------- C13
\* the cells whose state in the generation after f differs from their state in f
Differing(f) ==
  {c \in (0..(cols - 1)) \X (0..(rows - 1)) : Generation(f)[c[2]][c[1]] # f[c[2]][c[1]]}

\* C13: the change list of a generation step has exactly one entry for each
\* cell whose next state differs from its current state, carrying that next
\* state, and no entry for any other cell; the step assigns only the listed
\* cells, so every other cell keeps its value.
C13_DiffIsExact ==
  stepped =>
    \E cs \in {ScanField(prevField).cellsToChange} :
      /\ {<<cs[i].x, cs[i].y>> : i \in 1..Len(cs)} = Differing(prevField)
      /\ Len(cs) = Cardinality(Differing(prevField))
      /\ \A i \in 1..Len(cs) :
           /\ cs[i].state = Generation(prevField)[cs[i].y][cs[i].x]
           /\ field[cs[i].y][cs[i].x] = cs[i].state
      /\ cellWrites = Len(cs)
      /\ \A y \in 0..(rows - 1), x \in 0..(cols - 1) :
           <<x, y>> \notin Differing(prevField) => field[y][x] = prevField[y][x]

\* a step has changed some cells and left others as they were
C13_Witness ==
  /\ stepped
  /\ cellWrites > 0
  /\ cellWrites < cols * rows
  /\ \E y \in 0..(rows - 1), x \in 0..(cols - 1) :
       prevField[y][x] = 1 /\ field[y][x] = 1
  /\ \E y \in 0..(rows - 1), x \in 0..(cols - 1) :
       prevField[y][x] # field[y][x]

\* ---------------------------------------------------------------- C14
\* C14 (as claimed): an assignment to a cell, by painting or by the write
\* loop of a step, calls drawCell exactly once when the value written differs
\* from the value stored and not at all when it equals it: a handler draws
\* as many cells as it changes.
C14_DrawsOnlyOnChange == cellDraws = cellChanges

\* C14 (amended): every assignment to a cell calls drawCell exactly once,
\* whether or not the value written differs from the value stored; the write
\* loop of a step assigns only cells whose value changes, so a step draws
\* once per changed cell, and a paint event makes at most one assignment.
C14_DrawsOnEveryWrite ==
  /\ cellDraws = cellWrites
  /\ cellChanges <= cellWrites
  /\ stepped => cellChanges = cellWrites
  /\ lastOp \in {"mousemove", "mousedown"} => cellWrites <= 1

\* a paint event has assigned a cell the value it already held, and drawn it
C14_Witness ==
  /\ lastOp = "mousemove"
  /\ cellWrites = 1
  /\ cellChanges = 0
  /\ cellDraws = 1

\* ---------------------------------------------------------------- C15
\* the blinker of C15 standing upright
BlinkerUp == {<<1, 0>>, <<1, 1>>, <<1, 2>>}

\* C15: a run started on a horizontal blinker never terminates: after an odd
\* number of steps the field holds the blinker upright, after an even number
\* the horizontal blinker it started from (period 2); every step changes
\* cells; the run is still on after every step with the next step scheduled
\* (a timer or a frame is pending), and no outcome has been alerted.
C15_BlinkerNeverTerminates ==
  \A dx \in 0..(cols - 1), dy \in 0..(rows - 1) :
    (startField = Place(Blinker, dx, dy, cols, rows) /\ runSteps >= 1 /\ cols >= 5 /\ rows >= 5)
      => /\ field = IF runSteps % 2 = 1
                    THEN Place(BlinkerUp, dx, dy, cols, rows)
                    ELSE Place(Blinker, dx, dy, cols, rows)
         /\ isRunning
         /\ alerted = "none"
         /\ runReports = 0
         /\ timers # <<>> \/ frames # <<>>
         /\ stepped => (cellWrites > 0 /\ field # prevField)

\* a blinker run has made its fourth step and is back where it started
C15_Witness ==
  /\ stepped
  /\ runSteps = 4
  /\ \E dx \in 0..(cols - 1), dy \in 0..(rows - 1) :
       /\ startField = Place(Blinker, dx, dy, cols, rows)
       /\ prevField = Place(BlinkerUp, dx, dy, cols, rows)
  /\ field = startField
  /\ isRunning
  /\ timers # <<>>

\* ---------------------------------------------------------------- C16
\* C16: the life status a generation step computes is true exactly when at
\* least one cell is alive in the generation the step computed: it decides
\* the outcome the step alerts when it halts, and it is the value of
\* hasSignsOfLife the step leaves (unless the step perished and reset() has
\* set the field up anew); a single isolated live cell gives one step that
\* leaves the field all dead with hasSignsOfLife false, and whose change list
\* is exactly that cell.
C16_LifeStatus ==
  /\ stepped =>
       \E scan \in {ScanField(prevField)} :
         /\ scan.hasSignsOfLife <=> HasLife(Generation(prevField))
         /\ alerted = "harmony" => scan.hasSignsOfLife
         /\ alerted = "perished" => ~scan.hasSignsOfLife
         /\ alerted # "perished" =>
              /\ hasSignsOfLife = scan.hasSignsOfLife
              /\ hasSignsOfLife <=> HasLife(field)
  /\ \A dx \in 0..(cols - 1), dy \in 0..(rows - 1) :
       (stepped /\ prevField = Place(Single, dx, dy, cols, rows))
         => /\ field = generateField(rows, cols)
            /\ ~hasSignsOfLife
            /\ alerted = "none"
            /\ ScanField(prevField).cellsToChange
                 = << [x |-> dx, y |-> dy, state |-> 0] >>

\* a step has found a single live cell and left the field all dead, and
\* another has left live cells
C16_Witness ==
  /\ stepped
  /\ ~hasSignsOfLife
  /\ cellWrites = 1
  /\ \E dx \in 0..(cols - 1), dy \in 0..(rows - 1) :
       prevField = Place(Single, dx, dy, cols, rows)
  /\ ~HasLife(field)

\* ---------------------------------------------------------------- C17
\* the index q of the cell a pixel coordinate p falls in: q * CELL_SIZE <= p
\* < (q + 1) * CELL_SIZE
CellOf(p) ==
  CHOOSE q \in -1..(cols + rows) : q * CELL_SIZE <= p /\ p < (q + 1) * CELL_SIZE

\* what a pointer event <<offsetX, offsetY, buttons>> must do to the field
\* and the paint value, by C17
PaintsAsClaimed(e) ==
  LET tx == CellOf(e[1])
      ty == CellOf(e[2])
      held == e[3] = 1
      inside == 0 <= e[2] /\ e[2] < rows * CELL_SIZE
      hasTarget == ty \in DOMAIN field /\ tx \in DOMAIN field[ty]
  IN /\ lastOp' = "mousedown" =>
          isSetting' = IF hasTarget THEN field[ty][tx] = 0 ELSE TRUE
     /\ lastOp' = "mousemove" => isSetting' = isSetting
     /\ (held /\ inside) =>
          /\ field'[ty][tx] = IF isSetting' THEN 1 ELSE 0
          /\ \A y \in DOMAIN field : \A x \in DOMAIN field[y] :
               <<x, y>> # <<tx, ty>> => field'[y][x] = field[y][x]
     /\ ~(held /\ inside) => field' = field

\* C17: while painting is enabled a pointer-down sets the paint value to the
\* inverse of the value of the cell it targets (to "alive" when it targets
\* none); a paint event (pointer-down or pointer-move) with the primary
\* button held and the pointer inside the vertical extent of the grid sets
\* the cell (floor(offsetX / CELL_SIZE), floor(offsetY / CELL_SIZE)) to the
\* paint value and no other; a paint event with the button not held or the
\* pointer outside the vertical extent leaves the field unchanged.
C17_Painting == [][pointer' # <<>> => (~aborted /\ PaintsAsClaimed(pointer'))]_vars

\* a pointer-down on a live cell has switched to erasing and erased it, with
\* another cell left alive
C17_Witness ==
  /\ lastOp = "mousedown"
  /\ pointer # <<>>
  /\ pointer[3] = 1
  /\ pointer[1] \in PointerXs
  /\ pointer[2] >= 0
  /\ pointer[2] < rows * CELL_SIZE
  /\ ~isSetting
  /\ field[CellOf(pointer[2])][CellOf(pointer[1])] = 0
  /\ HasLife(field)

\* ---------------------------------------------------------------- C18
\* C18 (as claimed): every cell a handler writes has 0 <= x < cols and
\* 0 <= y < rows, so the field always consists of exactly rows rows of
\* exactly cols cells, each 0 or 1.
C18_FieldInBounds ==
  /\ DOMAIN field = 0..(rows - 1)
  /\ \A y \in DOMAIN field :
       /\ DOMAIN field[y] = 0..(cols - 1)
       /\ \A x \in DOMAIN field[y] : field[y][x] \in {0, 1}
  /\ (pointer # <<>> /\ cellWrites = 1) =>
       /\ CellOf(pointer[1]) \in 0..(cols - 1)
       /\ CellOf(pointer[2]) \in 0..(rows - 1)

\* ---------------------------------------------------------------- C19
\* C19 (as claimed): a generation step is executed by start() (the first step
\* of a run) or by an animation frame callback; between two consecutive
\* steps a timer scheduled after the earlier step has expired and requested
\* the callback that executes the later one: when a callback executes a
\* step, the timer the previous step set (the last handle allocated) is no
\* longer pending.
C19_TimerThenFrame ==
  [][stepped' =>
       /\ lastOp' \in {"start", "frame"}
       /\ lastOp' = "frame" => nextTimer \notin SeqToSet(timers)]_vars

\* ---------------------------------------------------------------- C20
\* what holds right after a step that alerted an outcome
C20_Outcome ==
  /\ alerted = "perished" =>
       /\ ~HasLife(prevField)
       /\ ~isRunning
       /\ field = generateField(rows, cols)
       /\ ~aborted
  /\ alerted = "harmony" =>
       /\ field = prevField
       /\ HasLife(field)
       /\ Generation(field) = field
       /\ ~isRunning
       /\ aborted

\* C20: when a step alerts "perished" the field was all dead before the step
\* and the game has been reset (not running, a fresh all-dead field, the
\* paint listeners attached again); when a step alerts "harmony" the field
\* is left as the step found it, a fixed point with a live cell, the game is
\* not running and the paint listeners stay detached: a stopped game with
\* detached listeners gets them back by reset() only.
C20_AfterOutcome ==
  /\ []C20_Outcome
  /\ [][(aborted /\ ~isRunning /\ ~aborted') => lastOp' = "reset"]_vars

\* a run has ended in harmony: stopped, a live fixed point, painting disabled
C20_Witness ==
  /\ stepped
  /\ alerted = "harmony"
  /\ HasLife(field)
  /\ aborted
  /\ ~isRunning

====
